---- MODULE Spec2Model ----
(***************************************************************************)
(* csonh.py: the CSONH loader.  loads(source) runs _CSONHLexer.tokenize()  *)
(* over the text and _CSONHParser.parse() over the tokens.                 *)
(*                                                                         *)
(* The lexer is a state machine: one action per kind of iteration of the   *)
(* loop of tokenize().  The parser is recursive descent over the finished  *)
(* token list; its productions are RECURSIVE operators and one action,     *)
(* Parse, applies parse() to the tokens.                                   *)
(*                                                                         *)
(* Text is a sequence of one-character strings.  Positions are 0-based as  *)
(* in the Python code, so character pos is source[pos + 1].                *)
(***************************************************************************)
EXTENDS Integers, Sequences, FiniteSets, TLC

VARIABLES
    source,         \* _CSONHLexer.source
    pos,            \* _CSONHLexer.pos
    indent_stack,   \* _CSONHLexer.indent_stack
    indent_unit,    \* _CSONHLexer.indent_unit (NoUnit until the first increase)
    indent_char,    \* _CSONHLexer.indent_char (None, "space" or "tab")
    at_line_start,  \* local of tokenize()
    tokens,         \* local of tokenize(), then _CSONHParser.tokens
    pc,             \* "lex": in tokenize(); "parse": before parse(); "done"
    ppos,           \* _CSONHParser.pos
    result          \* what loads() returned or raised

vars == <<source, pos, indent_stack, indent_unit, indent_char, at_line_start,
          tokens, pc, ppos, result>>

None == "None"
\* indent_unit is None until the first increase and a positive number after
\* it; the number 0 stands for that None ("self.indent_unit or 1" reads
\* both alike).
NoUnit == 0

\* A text literal as a sequence of characters.
Str(s) == [i \in 1..Len(s) |-> SubSeq(s, i, i)]

Min(S) == CHOOSE x \in S : \A y \in S : x <= y

RECURSIVE Flatten(_)
Flatten(ss) == IF ss = <<>> THEN <<>> ELSE Head(ss) \o Flatten(Tail(ss))

(***************************************************************************)
(* Character classes.  The texts the model reads are ASCII.                *)
(***************************************************************************)
Digits == {"0", "1", "2", "3", "4", "5", "6", "7", "8", "9"}
LowerHex == Str("0123456789abcdef")
UpperHex == Str("0123456789ABCDEF")
HexChars == {LowerHex[i] : i \in 1..16} \cup {UpperHex[i] : i \in 1..16}
Lowers == Str("abcdefghijklmnopqrstuvwxyz")
Uppers == Str("ABCDEFGHIJKLMNOPQRSTUVWXYZ")
Letters == {Lowers[i] : i \in 1..26} \cup {Uppers[i] : i \in 1..26}
Blanks == {" ", "\t"}
\* Characters 32..95 and 97..126, for chr().
AsciiLow == Str(" !\"#$%&'()*+,-./0123456789:;<=>?@ABCDEFGHIJKLMNOPQRSTUVWXYZ[\\]^_")
AsciiHigh == Str("abcdefghijklmnopqrstuvwxyz{|}~")

IsDigit(c) == c \in Digits
IsAlpha(c) == c \in Letters
IsAlnum(c) == c \in Letters \cup Digits

DigitVal(c) ==
    IF \E i \in 1..16 : LowerHex[i] = c
    THEN (CHOOSE i \in 1..16 : LowerHex[i] = c) - 1
    ELSE (CHOOSE i \in 1..16 : UpperHex[i] = c) - 1

\* int(digits, base)
RECURSIVE ToInt(_, _)
ToInt(digits, base) ==
    IF digits = <<>> THEN 0
    ELSE ToInt(SubSeq(digits, 1, Len(digits) - 1), base) * base
         + DigitVal(digits[Len(digits)])

\* chr(n); a code point outside these is outside the alphabet of the model
\* and is stood for by one symbol that no text of the model contains.
Chr(n) ==
    IF n \in 32..95 THEN AsciiLow[n - 31]
    ELSE IF n \in 97..126 THEN AsciiHigh[n - 96]
    ELSE IF n = 10 THEN "\n"
    ELSE IF n = 9 THEN "\t"
    ELSE IF n = 13 THEN "\r"
    ELSE "<other code point>"

(***************************************************************************)
(* Lexer: cursor.                                                          *)
(***************************************************************************)
Length == Len(source)

Peek(p, offset) ==
    IF p + offset >= Length THEN None ELSE source[p + offset + 1]

\* advance() keeps line and col in step with pos, so both are functions of
\* the position: line counts the newlines passed, col the characters since
\* the last one.
Line(p) == 1 + Cardinality({i \in 1..p : source[i] = "\n"})
Col(p) ==
    LET nls == {i \in 1..p : source[i] = "\n"}
    IN  IF nls = {} THEN p + 1 ELSE p - (CHOOSE i \in nls : \A j \in nls : j <= i) + 1

\* The first position from p on whose character is not in S (or the end):
\* "while self.peek() and self.peek() in S: self.advance()".
Span(p, S) ==
    IF p >= Length THEN p
    ELSE Min({i \in p..Length : i = Length \/ source[i + 1] \notin S})

Chars(p, q) == SubSeq(source, p + 1, q)

skip_whitespace(p) == Span(p, Blanks)

\* The rest of the line: every character but the newline.
skip_line_comment(p) ==
    IF p >= Length THEN p
    ELSE Min({i \in p..Length : i = Length \/ source[i + 1] = "\n"})

Token(type, value, p) ==
    [type |-> type, value |-> value, line |-> Line(p), col |-> Col(p)]

\* What a reader returns: ok with a value and the position reached, or the
\* LexerError it raised (msg) at position pos, or the other exception (exc).
Read(p, v) == [ok |-> TRUE, pos |-> p, val |-> v, msg |-> "", exc |-> ""]
Raise(p, m) == [ok |-> FALSE, pos |-> p, val |-> None, msg |-> m, exc |-> "LexerError"]
RaiseOther(p, e, m) == [ok |-> FALSE, pos |-> p, val |-> None, msg |-> m, exc |-> e]

\* p is the position after the opening "###".
skip_block_comment(p) ==
    LET is_block_style == (Col(p) - 3) <= 1
        closers == {i \in p..(Length - 3) :
                       source[i + 1] = "#" /\ source[i + 2] = "#" /\ source[i + 3] = "#"}
    IN  IF closers = {} THEN Raise(Length, "Unterminated block comment")
        ELSE LET q == Min(closers) + 3
             IN  Read(IF is_block_style THEN skip_line_comment(q) ELSE q, None)
(***************************************************************************)
(* Lexer: strings.                                                         *)
(***************************************************************************)
\* p is the position after "\u".
read_unicode_escape(p) ==
    LET bad == {k \in 0..3 : Peek(p, k) = None \/ Peek(p, k) \notin HexChars}
    IN  IF bad # {} THEN Raise(p + Min(bad), "Invalid unicode escape")
        ELSE Read(p + 4, Chr(ToInt(Chars(p, p + 4), 16)))

\* p is the position after the backslash.
read_escape(p) ==
    LET ch == Peek(p, 0)
    IN  IF ch = None THEN Raise(p, "Incomplete escape sequence")
        ELSE IF ch = "n" THEN Read(p + 1, "\n")
        ELSE IF ch = "r" THEN Read(p + 1, "\r")
        ELSE IF ch = "t" THEN Read(p + 1, "\t")
        ELSE IF ch \in {"\\", "'", "\""} THEN Read(p + 1, ch)
        ELSE IF ch = "u" THEN read_unicode_escape(p + 1)
        ELSE Raise(p + 1, "Invalid escape sequence")

\* The test without its look at the quote.
IsInterpolationAnyQuote(quote_char, p) == Peek(p, 0) = "#" /\ Peek(p, 1) = "{"

\* "Reject Interpolation in Double Quotes": the test both string readers
\* make on the character at p.
IsInterpolation(quote_char, p) ==
    quote_char = "\"" /\ Peek(p, 0) = "#" /\ Peek(p, 1) = "{"

RECURSIVE read_triple_quoted_string(_, _, _)
read_triple_quoted_string(quote_char, p, content) ==
    LET ch == Peek(p, 0)
    IN  IF ch = None THEN Raise(p, "Unterminated triple-quoted string")
        ELSE IF ch = quote_char /\ Peek(p, 1) = quote_char /\ Peek(p, 2) = quote_char
        THEN Read(p + 3, [triple |-> TRUE, quote |-> quote_char, text |-> content])
        ELSE IF IsInterpolation(quote_char, p)
        THEN Raise(p, "Interpolation #{} not allowed in CSONH")
        ELSE read_triple_quoted_string(quote_char, p + 1, Append(content, ch))

RECURSIVE read_single_line_string(_, _, _)
read_single_line_string(quote_char, p, content) ==
    LET ch == Peek(p, 0)
    IN  IF ch = None THEN Raise(p, "Unterminated string")
        ELSE IF ch = quote_char THEN Read(p + 1, [triple |-> FALSE, text |-> content])
        ELSE IF ch = "\n" THEN Raise(p, "Newline in single-line string")
        ELSE IF IsInterpolation(quote_char, p)
        THEN Raise(p, "Interpolation #{} not allowed in CSONH")
        ELSE IF ch = "\\"
        THEN LET e == read_escape(p + 1)
             IN  IF e.ok
                 THEN read_single_line_string(quote_char, e.pos, Append(content, e.val))
                 ELSE e
        ELSE read_single_line_string(quote_char, p + 1, Append(content, ch))

\* p is the position after the opening quote.
read_string(quote_char, p) ==
    IF Peek(p, 0) = quote_char /\ Peek(p, 1) = quote_char
    THEN read_triple_quoted_string(quote_char, p + 2, <<>>)
    ELSE read_single_line_string(quote_char, p, <<>>)

(***************************************************************************)
(* Lexer: numbers.  An int is [t |-> "int", i]; a float is the decimal     *)
(* m * 10^e it is written as, kept normal (m has no trailing zero), so two *)
(* spellings of one decimal are one value.  Binary rounding is not         *)
(* modelled.                                                               *)
(***************************************************************************)
IntValue(n) == [t |-> "int", i |-> n]

RECURSIVE FloatValue(_, _)
FloatValue(m, e) ==
    IF m = 0 THEN [t |-> "float", m |-> 0, e |-> 0]
    ELSE IF m % 10 = 0 THEN FloatValue(m \div 10, e + 1)
    ELSE [t |-> "float", m |-> m, e |-> e]

\* Unary minus on a number.
Negate(v) == IF v.t = "int" THEN IntValue(0 - v.i) ELSE [v EXCEPT !.m = 0 - v.m]

\* The first index of s holding a character of S, or 0.
Find(s, S) ==
    IF \E i \in 1..Len(s) : s[i] \in S
    THEN Min({i \in 1..Len(s) : s[i] \in S})
    ELSE 0

AllDigits(s) == \A i \in 1..Len(s) : s[i] \in Digits

\* int(num_str): ValueError unless num_str is a non-empty run of digits.
PyInt(p, num_str) ==
    IF num_str # <<>> /\ AllDigits(num_str)
    THEN Read(p, IntValue(ToInt(num_str, 10)))
    ELSE RaiseOther(p, "ValueError", "invalid literal for int()")

\* float(num_str): [digits][.[digits]][(e|E)[+|-]digits], with a digit in
\* the mantissa; anything else is a ValueError.
PyFloat(p, num_str) ==
    LET ex == Find(num_str, {"e", "E"})
        mant == IF ex = 0 THEN num_str ELSE SubSeq(num_str, 1, ex - 1)
        expo == IF ex = 0 THEN <<>> ELSE SubSeq(num_str, ex + 1, Len(num_str))
        signed == expo # <<>> /\ expo[1] \in {"+", "-"}
        edigits == IF signed THEN Tail(expo) ELSE expo
        dot == Find(mant, {"."})
        ipart == IF dot = 0 THEN mant ELSE SubSeq(mant, 1, dot - 1)
        fpart == IF dot = 0 THEN <<>> ELSE SubSeq(mant, dot + 1, Len(mant))
        valid == /\ AllDigits(ipart) /\ AllDigits(fpart)
                 /\ Len(ipart) + Len(fpart) >= 1
                 /\ (ex # 0 => edigits # <<>> /\ AllDigits(edigits))
        e == IF ex = 0 THEN 0
             ELSE IF signed /\ expo[1] = "-" THEN 0 - ToInt(edigits, 10)
             ELSE ToInt(edigits, 10)
    IN  IF valid THEN Read(p, FloatValue(ToInt(ipart \o fpart, 10), e - Len(fpart)))
        ELSE RaiseOther(p, "ValueError", "could not convert string to float")

read_base(p, base, valid_chars) ==
    LET q == Span(p, valid_chars)
    IN  IF q = p THEN Raise(p, "Invalid base number")
        ELSE Read(q, IntValue(ToInt(Chars(p, q), base)))

read_decimal(p) ==
    LET dot1 == Peek(p, 0) = "."
        p1 == IF dot1 THEN p + 1 ELSE p
        p2 == Span(p1, Digits)
        chars == Chars(p, p2)
        frac == Peek(p2, 0) = "." /\ chars # <<>> /\ chars[1] # "."
        p3 == IF frac THEN Span(p2 + 1, Digits) ELSE p2
        hasExp == Peek(p3, 0) \in {"e", "E"}
        p4 == IF hasExp /\ Peek(p3 + 1, 0) \in {"+", "-"} THEN p3 + 2 ELSE p3 + 1
        p5 == IF hasExp THEN Span(p4, Digits) ELSE p3
        num_str == Chars(p, p5)
    IN  IF frac /\ Peek(p2, 1) = "." THEN Raise(p2, "Range operator '..' not allowed")
        ELSE IF hasExp /\ ~IsDigit(Peek(p4, 0)) THEN Raise(p4, "Invalid scientific notation")
        ELSE IF Find(num_str, {".", "e", "E"}) # 0 THEN PyFloat(p5, num_str)
        ELSE PyInt(p5, num_str)

Signed(is_negative, r) == IF r.ok /\ is_negative THEN [r EXCEPT !.val = Negate(r.val)] ELSE r

read_number(p) ==
    LET is_negative == Peek(p, 0) = "-"
        p1 == IF is_negative THEN p + 1 ELSE p
        nxt == Peek(p1, 1)
    IN  IF Peek(p1, 0) = "0" /\ nxt \in {"x", "X"}
        THEN Signed(is_negative, read_base(p1 + 2, 16, HexChars))
        ELSE IF Peek(p1, 0) = "0" /\ nxt \in {"b", "B"}
        THEN Signed(is_negative, read_base(p1 + 2, 2, {"0", "1"}))
        ELSE IF Peek(p1, 0) = "0" /\ nxt \in {"o", "O"}
        THEN Signed(is_negative, read_base(p1 + 2, 8, {"0", "1", "2", "3", "4", "5", "6", "7"}))
        ELSE IF Peek(p1, 0) = "0" /\ IsDigit(nxt)
        THEN Raise(p1, "Leading zeros not allowed")
        ELSE Signed(is_negative, read_decimal(p1))

IdentChars == Letters \cup Digits \cup {"_", "$"}

read_identifier(p) ==
    IF Peek(p, 0) = None \/ ~(IsAlpha(Peek(p, 0)) \/ Peek(p, 0) \in {"_", "$"})
    THEN Raise(p, "Invalid identifier start")
    ELSE Read(Span(p, IdentChars), Chars(p, Span(p, IdentChars)))
(***************************************************************************)
(* Lexer: indentation.                                                     *)
(***************************************************************************)
Top(stack) == stack[Len(stack)]

CharType(c) == IF c = " " THEN "space" ELSE "tab"

\* The test on the last character of the run only.
MixedIndentLast(indent_chars) ==
    CharType(indent_chars[Len(indent_chars)]) # CharType(indent_chars[1])

\* "Mixed tabs and spaces": some character of the run differs in kind from
\* the first.
MixedIndent(indent_chars) ==
    \E i \in 1..Len(indent_chars) : CharType(indent_chars[i]) # CharType(indent_chars[1])

\* One level for every increase.
IndentLevelsOne(indent, current, unit) == 1

\* The levels an increase from current to indent pushes.
IndentLevels(indent, current, unit) ==
    (indent - current) \div (IF unit = 0 THEN 1 ELSE unit)

\* "for _ in range(levels): self.indent_stack.append(self.indent_stack[-1] + unit)"
RECURSIVE PushLevels(_, _, _)
PushLevels(stack, levels, unit) ==
    IF levels <= 0 THEN stack
    ELSE PushLevels(Append(stack, Top(stack) + (IF unit = 0 THEN 1 ELSE unit)),
                    levels - 1, unit)

\* ">=" for ">": the level of the line is popped too.
RECURSIVE PopLevelsThrough(_, _)
PopLevelsThrough(stack, indent) ==
    IF stack # <<>> /\ Top(stack) >= indent
    THEN PopLevelsThrough(SubSeq(stack, 1, Len(stack) - 1), indent)
    ELSE stack

\* "while self.indent_stack[-1] > indent: self.indent_stack.pop()"
RECURSIVE PopLevels(_, _)
PopLevels(stack, indent) ==
    IF Top(stack) > indent
    THEN PopLevels(SubSeq(stack, 1, Len(stack) - 1), indent)
    ELSE stack

\* A range test for the membership test.
InStackBelowTop(indent, stack) == indent < Top(stack)


InStack(indent, stack) == \E i \in 1..Len(stack) : stack[i] = indent

Indented(ok, p, toks, stack, unit, char, m) ==
    [ok |-> ok, pos |-> p, tokens |-> toks, stack |-> stack, unit |-> unit,
     char |-> char, msg |-> m]

\* measure_indent() at position p with the lexer's indent_stack,
\* indent_unit and indent_char: the tokens it returns and the fields it
\* leaves, or the error it raises (the fields are as they were when it
\* raised).
measure_indent(p) ==
    LET q == Span(p, Blanks)
        indent == q - p
        indent_chars == Chars(p, q)
        char_type == IF indent_chars = <<>> THEN None ELSE CharType(indent_chars[1])
        char1 == IF indent_chars # <<>> /\ indent_char = None THEN char_type
                 ELSE indent_char
        current == Top(indent_stack)
        unit1 == IF indent > current /\ indent_unit = NoUnit THEN indent - current
                 ELSE indent_unit
        levels == IndentLevels(indent, current, unit1)
        pushed == PushLevels(indent_stack, levels, unit1)
        popped == PopLevels(indent_stack, indent)
    IN  IF Peek(q, 0) = None \/ Peek(q, 0) = "#" \/ Peek(q, 0) = "\n"
        THEN Indented(TRUE, q, <<>>, indent_stack, indent_unit, indent_char, "")
        ELSE IF indent_chars # <<>> /\ MixedIndent(indent_chars)
        THEN Indented(FALSE, q, <<>>, indent_stack, indent_unit, indent_char,
                      "Mixed tabs and spaces")
        ELSE IF indent_chars # <<>> /\ indent_char # None /\ indent_char # char_type
        THEN Indented(FALSE, q, <<>>, indent_stack, indent_unit, indent_char,
                      "Inconsistent indent character")
        ELSE IF indent > current
        THEN IF indent_unit # NoUnit /\ (indent - current) % indent_unit # 0
             THEN Indented(FALSE, q, <<>>, indent_stack, indent_unit, char1,
                           "Inconsistent indentation")
             ELSE Indented(TRUE, q, [k \in 1..levels |-> Token("INDENT", None, q)],
                           pushed, unit1, char1, "")
        ELSE IF indent < current
        THEN IF ~InStack(indent, indent_stack)
             THEN Indented(FALSE, q, <<>>, indent_stack, indent_unit, char1,
                           "Dedent mismatch")
             ELSE Indented(TRUE, q,
                           [k \in 1..(Len(indent_stack) - Len(popped)) |->
                               Token("DEDENT", None, q)],
                           popped, indent_unit, char1, "")
        ELSE Indented(TRUE, q, <<>>, indent_stack, indent_unit, char1, "")

(***************************************************************************)
(* Lexer: keywords and symbols.                                            *)
(***************************************************************************)
\* str.lower() on the letters of the model.
LowerCase(chars) ==
    [i \in 1..Len(chars) |->
        IF \E k \in 1..26 : Uppers[k] = chars[i]
        THEN Lowers[CHOOSE k \in 1..26 : Uppers[k] = chars[i]]
        ELSE chars[i]]

\* keyword_map looked up with the identifier in lower case.
KeywordTokenAnyCase(ident, p) ==
    IF LowerCase(ident) \in {Str("true"), Str("yes"), Str("on")} THEN Token("TRUE", TRUE, p)
    ELSE IF LowerCase(ident) \in {Str("false"), Str("no"), Str("off")}
    THEN Token("FALSE", FALSE, p)
    ELSE IF LowerCase(ident) = Str("null") THEN Token("NULL", None, p)
    ELSE Token("IDENTIFIER", ident, p)

\* keyword_map: the token an identifier makes.
KeywordToken(ident, p) ==
    IF ident \in {Str("true"), Str("yes"), Str("on")} THEN Token("TRUE", TRUE, p)
    ELSE IF ident \in {Str("false"), Str("no"), Str("off")} THEN Token("FALSE", FALSE, p)
    ELSE IF ident = Str("null") THEN Token("NULL", None, p)
    ELSE Token("IDENTIFIER", ident, p)

\* token_map
SymbolChars == {"{", "}", "[", "]", ":", ","}
SymbolType(ch) ==
    CASE ch = "{" -> "LBRACE" [] ch = "}" -> "RBRACE"
      [] ch = "[" -> "LBRACKET" [] ch = "]" -> "RBRACKET"
      [] ch = ":" -> "COLON" [] ch = "," -> "COMMA"

\* The tests of tokenize() that send a character to read_number().
StartsNumber(p) ==
    LET ch == Peek(p, 0)
    IN  \/ IsDigit(ch)
        \/ ch = "." /\ Peek(p, 1) # None /\ IsDigit(Peek(p, 1))
        \/ ch = "-" /\ Peek(p, 1) # None /\ (IsDigit(Peek(p, 1)) \/ Peek(p, 1) = ".")

StartsIdentifier(p) == IsAlpha(Peek(p, 0)) \/ Peek(p, 0) \in {"_", "$"}
(***************************************************************************)
(* tokenize(): one action per kind of loop iteration.                      *)
(***************************************************************************)
NoResult == [kind |-> "none"]

Failure(kind, m, p) == [kind |-> kind, msg |-> m, line |-> Line(p), col |-> Col(p)]

\* "while self.pos < self.length" is entered.
InLoop == pc = "lex" /\ pos < Length

\* The position of the character the iteration dispatches on.
AtChar == skip_whitespace(pos)

\* The iteration has a character to dispatch on.
Dispatch == InLoop /\ ~at_line_start /\ AtChar < Length

\* A reader raised: tokenize() ends and loads() raises.
LexFail(r) ==
    /\ pos' = r.pos
    /\ pc' = "done"
    /\ result' = Failure(r.exc, r.msg, r.pos)
    /\ UNCHANGED <<source, indent_stack, indent_unit, indent_char, at_line_start,
                   tokens, ppos>>

\* The iteration appended tok and goes on at position p.
Emit(tok, p) ==
    /\ pos' = p
    /\ tokens' = Append(tokens, tok)
    /\ UNCHANGED <<source, indent_stack, indent_unit, indent_char, at_line_start,
                   pc, ppos, result>>

\* "if at_line_start: tokens.extend(self.measure_indent())"
MeasureIndent ==
    /\ InLoop /\ at_line_start
    /\ LET r == measure_indent(pos)
       IN  /\ pos' = r.pos
           /\ indent_stack' = r.stack
           /\ indent_unit' = r.unit
           /\ indent_char' = r.char
           /\ tokens' = tokens \o r.tokens
           /\ at_line_start' = FALSE
           /\ pc' = IF r.ok THEN "lex" ELSE "done"
           /\ result' = IF r.ok THEN result ELSE Failure("LexerError", r.msg, r.pos)
    /\ UNCHANGED <<source, ppos>>

\* "#": a line comment or a "###" block comment.
LexComment ==
    /\ Dispatch /\ Peek(AtChar, 0) = "#"
    /\ IF Peek(AtChar, 1) = "#" /\ Peek(AtChar, 2) = "#"
       THEN LET r == skip_block_comment(AtChar + 3)
            IN  IF r.ok
                THEN /\ pos' = r.pos
                     /\ UNCHANGED <<source, indent_stack, indent_unit, indent_char,
                                    at_line_start, tokens, pc, ppos, result>>
                ELSE LexFail(r)
       ELSE /\ pos' = skip_line_comment(AtChar + 1)
            /\ UNCHANGED <<source, indent_stack, indent_unit, indent_char,
                           at_line_start, tokens, pc, ppos, result>>

LexNewline ==
    /\ Dispatch /\ Peek(AtChar, 0) = "\n"
    /\ pos' = AtChar + 1
    /\ tokens' = Append(tokens, Token("NEWLINE", None, AtChar + 1))
    /\ at_line_start' = TRUE
    /\ UNCHANGED <<source, indent_stack, indent_unit, indent_char, pc, ppos, result>>

LexSymbol ==
    /\ Dispatch /\ Peek(AtChar, 0) \in SymbolChars
    /\ Emit(Token(SymbolType(Peek(AtChar, 0)), Peek(AtChar, 0), AtChar + 1), AtChar + 1)

LexString ==
    /\ Dispatch /\ Peek(AtChar, 0) \in {"\"", "'"}
    /\ LET r == read_string(Peek(AtChar, 0), AtChar + 1)
       IN  IF r.ok THEN Emit(Token("STRING", r.val, r.pos), r.pos) ELSE LexFail(r)

LexNumber ==
    /\ Dispatch /\ StartsNumber(AtChar)
    /\ LET r == read_number(AtChar)
       IN  IF r.ok THEN Emit(Token("NUMBER", r.val, r.pos), r.pos) ELSE LexFail(r)

LexIdentifier ==
    /\ Dispatch /\ ~StartsNumber(AtChar) /\ StartsIdentifier(AtChar)
    /\ LET r == read_identifier(AtChar)
       IN  IF r.ok THEN Emit(KeywordToken(r.val, r.pos), r.pos) ELSE LexFail(r)

\* "Unexpected character": no rule takes the character.
LexUnexpected ==
    /\ Dispatch
    /\ Peek(AtChar, 0) \notin {"#", "\n", "\"", "'"} \cup SymbolChars
    /\ ~StartsNumber(AtChar) /\ ~StartsIdentifier(AtChar)
    /\ LexFail(Raise(AtChar, "Unexpected character"))

\* The loop ends and EOF is appended with the open levels left open.
EndOfInputOpenLevels ==
    /\ pc = "lex"
    /\ pos >= Length \/ (~at_line_start /\ AtChar >= Length)
    /\ LET p == IF pos >= Length THEN pos ELSE AtChar
       IN  /\ pos' = p
           /\ tokens' = Append(tokens, Token("EOF", None, p))
    /\ pc' = "parse"
    /\ UNCHANGED <<source, indent_stack, indent_unit, indent_char, at_line_start,
                   ppos, result>>

\* The loop ends ("while" fails, or "break" after skip_whitespace()): the
\* open levels are popped, one DEDENT each, then EOF.
EndOfInput ==
    /\ pc = "lex"
    /\ pos >= Length \/ (~at_line_start /\ AtChar >= Length)
    /\ LET p == IF pos >= Length THEN pos ELSE AtChar
       IN  /\ pos' = p
           /\ tokens' = tokens
                  \o [k \in 1..(Len(indent_stack) - 1) |-> Token("DEDENT", None, p)]
                  \o <<Token("EOF", None, p)>>
    /\ indent_stack' = SubSeq(indent_stack, 1, 1)
    /\ pc' = "parse"
    /\ UNCHANGED <<source, indent_unit, indent_char, at_line_start, ppos, result>>
(***************************************************************************)
(* Parser: cursor.  A production returns the value it parsed and the       *)
(* cursor it left, or the ParseError it raised at the token under the      *)
(* cursor.                                                                 *)
(***************************************************************************)
Parsed(p, v) == [ok |-> TRUE, pos |-> p, val |-> v, msg |-> ""]
ParseFail(p, m) == [ok |-> FALSE, pos |-> p, val |-> None, msg |-> m]

current(p) == IF p < Len(tokens) THEN tokens[p + 1] ELSE tokens[Len(tokens)]

advance(p) == IF p < Len(tokens) THEN p + 1 ELSE p

expect(p, token_type) ==
    IF current(p).type # token_type
    THEN ParseFail(p, "Expected " \o token_type)
    ELSE Parsed(advance(p), current(p))

\* "while self.current().type == token_type: self.advance()"
RECURSIVE SkipTokens(_, _)
SkipTokens(p, token_type) ==
    IF current(p).type = token_type
    THEN SkipTokens(advance(p), token_type)
    ELSE p

skip_newlines(p) == SkipTokens(p, "NEWLINE")

(***************************************************************************)
(* Parsed values.                                                          *)
(***************************************************************************)
StrVal(chars) == [t |-> "str", s |-> chars]
BoolVal(b) == [t |-> "bool", b |-> b]
NullVal == [t |-> "null"]
ArrVal(items) == [t |-> "arr", items |-> items]
ObjVal(entries) == [t |-> "obj", entries |-> entries]

\* obj[key] = val on a dict kept as its entries in insertion order: a key
\* already there keeps its place and takes the new value.
DictSet(entries, key, val) ==
    IF \E i \in 1..Len(entries) : entries[i].k = key
    THEN [i \in 1..Len(entries) |->
             IF entries[i].k = key THEN [k |-> key, v |-> val] ELSE entries[i]]
    ELSE Append(entries, [k |-> key, v |-> val])

(***************************************************************************)
(* Parser: triple-quoted payloads.                                         *)
(***************************************************************************)
\* What str.strip() strips (the vertical tab and the separators beyond
\* ASCII are outside the alphabet of the model).
Whitespace == {" ", "\t", "\n", "\r", "\f"}

\* line.strip() == ''
IsBlank(line) == \A i \in 1..Len(line) : line[i] \in Whitespace

HasNewline(content) == \E i \in 1..Len(content) : content[i] = "\n"

\* content.split('\n')
RECURSIVE SplitLines(_)
SplitLines(content) ==
    LET nl == Find(content, {"\n"})
    IN  IF nl = 0 THEN <<content>>
        ELSE <<SubSeq(content, 1, nl - 1)>>
             \o SplitLines(SubSeq(content, nl + 1, Len(content)))

\* '\n'.join(lines)
RECURSIVE JoinLines(_)
JoinLines(lines) ==
    IF lines = <<>> THEN <<>>
    ELSE IF Len(lines) = 1 THEN lines[1]
    ELSE lines[1] \o <<"\n">> \o JoinLines(Tail(lines))

Repeat(c, n) == [i \in 1..n |-> c]

StartsWith(line, prefix) ==
    Len(line) >= Len(prefix) /\ SubSeq(line, 1, Len(prefix)) = prefix

\* The test on the line without its tab branch.
DedentLineSpaces(line, closing_indent) ==
    IF line = <<>> THEN line
    ELSE IF StartsWith(line, Repeat(" ", closing_indent))
    THEN SubSeq(line, closing_indent + 1, Len(line))
    ELSE line

\* The four-way test on one line of the payload.
DedentLine(line, closing_indent) ==
    IF line = <<>> THEN line
    ELSE IF StartsWith(line, Repeat(" ", closing_indent))
    THEN SubSeq(line, closing_indent + 1, Len(line))
    ELSE IF StartsWith(line, Repeat("\t", closing_indent))
    THEN SubSeq(line, closing_indent + 1, Len(line))
    ELSE line

has_first(content) == content # <<>> /\ IsBlank(SplitLines(content)[1])

has_last(content) ==
    content # <<>> /\ IsBlank(SplitLines(content)[Len(SplitLines(content))])

\* content.split('\n', 1)[1]
AfterFirstLine(content) ==
    SubSeq(content, Find(content, {"\n"}) + 1, Len(content))

\* "if has_first and '\n' in content": the blank first line goes.
DropFirst(content) ==
    IF has_first(content) /\ HasNewline(content)
    THEN AfterFirstLine(content)
    ELSE content

\* "if '\n' in content": the closing line goes and the lines before it lose
\* the closing indent.
DropLastAndDedent(content) ==
    LET lines == SplitLines(content)
        last == lines[Len(lines)]
        closing_indent == Len(last)
        kept == SubSeq(lines, 1, Len(lines) - 1)
    IN  IF HasNewline(content) /\ IsBlank(last)
        THEN JoinLines([i \in 1..Len(kept) |-> DedentLine(kept[i], closing_indent)])
        ELSE content

\* int(h, 16) on the four characters after "\u" succeeds when they are hex
\* digits (the signed, blank-padded and underscored spellings int() also
\* takes are outside the alphabet of the model).
RECURSIVE EscapeLoop(_, _, _)
EscapeLoop(content, i, res) ==
    IF i >= Len(content) THEN res
    ELSE IF content[i + 1] # "\\" THEN EscapeLoop(content, i + 1, Append(res, content[i + 1]))
    ELSE IF i + 1 >= Len(content) THEN res
    ELSE LET j == i + 1
             esc == content[j + 1]
             hex == SubSeq(content, j + 2, j + 5)
         IN  IF esc = "n" THEN EscapeLoop(content, j + 1, Append(res, "\n"))
             ELSE IF esc = "r" THEN EscapeLoop(content, j + 1, Append(res, "\r"))
             ELSE IF esc = "t" THEN EscapeLoop(content, j + 1, Append(res, "\t"))
             ELSE IF esc \in {"\\", "'", "\""} THEN EscapeLoop(content, j + 1, Append(res, esc))
             ELSE IF esc = "u"
             THEN IF j + 4 < Len(content)
                  THEN IF \A k \in 1..4 : hex[k] \in HexChars
                       THEN EscapeLoop(content, j + 5, Append(res, Chr(ToInt(hex, 16))))
                       ELSE EscapeLoop(content, j + 5, res \o <<"\\", "u">> \o hex)
                  ELSE EscapeLoop(content, j + 1, res \o <<"\\", "u">>)
             ELSE EscapeLoop(content, j + 1, res \o <<"\\", esc>>)

process_escapes(content) ==
    IF Find(content, {"\\"}) = 0 THEN content ELSE EscapeLoop(content, 0, <<>>)

dedent_string(quote_char, content) ==
    process_escapes(
        IF has_last(content) THEN DropLastAndDedent(DropFirst(content)) ELSE content)

\* The Python string a STRING token stands for.
StringOf(value) ==
    IF value.triple THEN dedent_string(value.quote, value.text) ELSE value.text
(***************************************************************************)
(* Parser: productions.                                                    *)
(***************************************************************************)
\* One statement after another: k on what r returned, unless r raised.
Then(r, k(_)) == IF r.ok THEN k(r) ELSE r

RECURSIVE parse_value(_), parse_braced_object(_), parse_array(_),
          parse_indented_object(_), EntryValue(_), BracedEntryValue(_),
          KeyValue(_, _), BracedLoop(_, _), ArrayLoop(_, _),
          IndentedLoop(_, _), TopLoop(_, _)

KeyOfToken(p, token) ==
    IF token.type = "STRING" THEN Parsed(advance(p), StringOf(token.value))
    ELSE IF token.type = "IDENTIFIER" THEN Parsed(advance(p), token.value)
    ELSE ParseFail(p, "Expected key")

parse_key(p) == KeyOfToken(p, current(p))

ValueOfToken(p, token) ==
    IF token.type = "STRING" THEN Parsed(advance(p), StrVal(StringOf(token.value)))
    ELSE IF token.type = "NUMBER" THEN Parsed(advance(p), token.value)
    ELSE IF token.type \in {"TRUE", "FALSE"} THEN Parsed(advance(p), BoolVal(token.value))
    ELSE IF token.type = "NULL" THEN Parsed(advance(p), NullVal)
    ELSE IF token.type = "LBRACE" THEN parse_braced_object(p)
    ELSE IF token.type = "LBRACKET" THEN parse_array(p)
    ELSE IF token.type = "IDENTIFIER" THEN ParseFail(p, "Bareword rejected as value")
    ELSE ParseFail(p, "Expected value")

parse_value(p) == ValueOfToken(p, current(p))

\* The value after "key:" in an indented block and at the top level.
EntryValue(p) ==
    IF current(p).type = "INDENT" THEN parse_indented_object(p)
    ELSE IF current(p).type = "LBRACE" THEN parse_braced_object(p)
    ELSE IF current(p).type = "LBRACKET" THEN parse_array(p)
    ELSE parse_value(p)

\* The value after "key:" in a braced object.
BracedEntryValue(p) ==
    IF current(p).type = "INDENT" THEN parse_indented_object(p)
    ELSE IF current(p).type = "LBRACE" THEN parse_braced_object(p)
    ELSE IF current(p).type = "LBRACKET" THEN parse_array(p)
    ELSE parse_value(SkipTokens(p, "INDENT"))

\* "key: value" with the newlines after it, at cursor p: the entry and the
\* cursor after it.
KeyValue(p, value_at_br) ==
    Then(parse_key(p), LAMBDA key :
    Then(expect(key.pos, "COLON"), LAMBDA colon :
    Then(IF value_at_br THEN BracedEntryValue(skip_newlines(colon.pos))
         ELSE EntryValue(skip_newlines(colon.pos)), LAMBDA val :
    Parsed(skip_newlines(val.pos), [k |-> key.val, v |-> val.val]))))

\* The check without its last test: whatever follows an entry is let through.
SeparatorLax(p, closer, m) ==
    IF current(p).type = "COMMA" THEN Parsed(skip_newlines(advance(p)), None)
    ELSE Parsed(skip_newlines(p), None)

\* STRICT SEPARATION CHECK, after the newlines and DEDENTs that follow an
\* entry: the cursor the next entry starts at, or the error.
Separator(p, closer, m) ==
    IF current(p).type = "COMMA" THEN Parsed(skip_newlines(advance(p)), None)
    ELSE IF current(p).type = "NEWLINE" THEN Parsed(skip_newlines(p), None)
    ELSE IF current(p).type # closer THEN ParseFail(p, m)
    ELSE Parsed(p, None)

\* The end of a bracketed form: DEDENTs, then the closer.
Close(p, closer, v) ==
    Then(expect(SkipTokens(p, "DEDENT"), closer), LAMBDA c : Parsed(c.pos, v))

BracedLoop(p, obj) ==
    IF current(p).type = "RBRACE" THEN Close(p, "RBRACE", ObjVal(obj))
    ELSE IF current(p).type = "EOF" THEN ParseFail(p, "Unclosed object")
    ELSE IF current(SkipTokens(p, "INDENT")).type = "RBRACE"
    THEN Close(SkipTokens(p, "INDENT"), "RBRACE", ObjVal(obj))
    ELSE Then(KeyValue(SkipTokens(p, "INDENT"), TRUE), LAMBDA kv :
         Then(Separator(SkipTokens(kv.pos, "DEDENT"), "RBRACE",
                        "Expected comma or newline between object entries"), LAMBDA sep :
         BracedLoop(sep.pos, DictSet(obj, kv.val.k, kv.val.v))))

parse_braced_object(p) ==
    Then(expect(p, "LBRACE"), LAMBDA open :
    BracedLoop(SkipTokens(skip_newlines(open.pos), "INDENT"), <<>>))

ArrayLoop(p, arr) ==
    IF current(p).type = "RBRACKET" THEN Close(p, "RBRACKET", ArrVal(arr))
    ELSE IF current(p).type = "EOF" THEN ParseFail(p, "Unclosed array")
    ELSE IF current(SkipTokens(p, "INDENT")).type = "RBRACKET"
    THEN Close(SkipTokens(p, "INDENT"), "RBRACKET", ArrVal(arr))
    ELSE Then(parse_value(SkipTokens(p, "INDENT")), LAMBDA val :
         Then(Separator(SkipTokens(skip_newlines(val.pos), "DEDENT"), "RBRACKET",
                        "Expected comma or newline between array elements"), LAMBDA sep :
         ArrayLoop(sep.pos, Append(arr, val.val))))

parse_array(p) ==
    Then(expect(p, "LBRACKET"), LAMBDA open :
    ArrayLoop(SkipTokens(skip_newlines(open.pos), "INDENT"), <<>>))

\* "while" for "if": the block consumes every DEDENT it sees.
CloseBlockAll(p) == SkipTokens(p, "DEDENT")

\* "if self.current().type == TokenType.DEDENT: self.advance()": the block
\* consumes the DEDENT that ends it.
CloseBlock(p) == IF current(p).type = "DEDENT" THEN advance(p) ELSE p

\* The block ends at a DEDENT or at EOF.
IndentedLoop(p, obj) ==
    IF current(p).type \in {"DEDENT", "EOF"} THEN Parsed(CloseBlock(p), ObjVal(obj))
    ELSE Then(KeyValue(p, FALSE), LAMBDA kv :
         IndentedLoop(kv.pos, DictSet(obj, kv.val.k, kv.val.v)))

parse_indented_object(p) ==
    Then(expect(p, "INDENT"), LAMBDA open : IndentedLoop(skip_newlines(open.pos), <<>>))

\* No seal.
SealedLax(p) == TRUE

\* TOP LEVEL SEAL: nothing but EOF may be under the cursor.
Sealed(p) == current(p).type = "EOF"

\* The loop of the implicit top-level object, then the seal.
TopLoop(p, obj) ==
    IF current(p).type \in {"IDENTIFIER", "STRING"}
    THEN Then(KeyValue(p, FALSE), LAMBDA kv :
         TopLoop(kv.pos, DictSet(obj, kv.val.k, kv.val.v)))
    ELSE IF ~Sealed(p) THEN ParseFail(p, "Unexpected content at top level")
    ELSE Parsed(p, ObjVal(obj))

\* An explicit top-level container, then the seal.
TopContainer(r, m) ==
    IF ~r.ok THEN r
    ELSE IF ~Sealed(skip_newlines(r.pos)) THEN ParseFail(skip_newlines(r.pos), m)
    ELSE Parsed(skip_newlines(r.pos), r.val)

IsKeyValue(p) ==
    /\ current(p).type \in {"IDENTIFIER", "STRING"}
    /\ current(p + 1).type = "COLON"

ParseAt(p) ==
    IF current(p).type = "EOF" THEN Parsed(p, ObjVal(<<>>))
    ELSE IF current(p).type = "LBRACKET"
    THEN TopContainer(parse_array(p), "Trailing junk after top-level array")
    ELSE IF current(p).type = "LBRACE"
    THEN TopContainer(parse_braced_object(p), "Trailing junk after top-level object")
    ELSE IF ~IsKeyValue(p) THEN ParseFail(p, "Root must be object or array")
    ELSE TopLoop(p, <<>>)

parse == ParseAt(skip_newlines(0))

\* What loads() returns or raises on what parse() did.
Outcome(r) ==
    /\ ppos' = r.pos
    /\ result' = IF r.ok THEN [kind |-> "ok", value |-> r.val]
                 ELSE [kind |-> "ParseError", msg |-> r.msg,
                       line |-> current(r.pos).line, col |-> current(r.pos).col]

\* loads(): parser.parse() on the tokens of tokenize().
Parse ==
    /\ pc = "parse"
    /\ Outcome(parse)
    /\ pc' = "done"
    /\ UNCHANGED <<source, pos, indent_stack, indent_unit, indent_char,
                   at_line_start, tokens>>

Next ==
    \/ MeasureIndent
    \/ LexComment
    \/ LexNewline
    \/ LexSymbol
    \/ LexString
    \/ LexNumber
    \/ LexIdentifier
    \/ LexUnexpected
    \/ EndOfInput
    \/ Parse
(***************************************************************************)
(* _CSONHLexer.__init__: line ends are normalised and a leading byte-order *)
(* mark dropped.  The mark is the symbol BOM.                              *)
(***************************************************************************)
BOM == "<U+FEFF>"

RECURSIVE NormalizeNewlines(_)
NormalizeNewlines(text) ==
    IF text = <<>> THEN <<>>
    ELSE IF Head(text) = "\r" /\ Len(text) >= 2 /\ text[2] = "\n"
    THEN <<"\n">> \o NormalizeNewlines(SubSeq(text, 3, Len(text)))
    ELSE IF Head(text) = "\r" THEN <<"\n">> \o NormalizeNewlines(Tail(text))
    ELSE <<Head(text)>> \o NormalizeNewlines(Tail(text))

LexerSource(text) ==
    LET t == NormalizeNewlines(text)
    IN  IF t # <<>> /\ Head(t) = BOM THEN Tail(t) ELSE t

(***************************************************************************)
(* The texts loads() is called on.  Each family is written out from the    *)
(* notation: a document is its text and, where the notation says what it   *)
(* means, the value it stands for.                                         *)
(***************************************************************************)
MaxGap == 2       \* blanks between two siblings
MaxLines == 4     \* lines of an indented document
MaxPayload == 4   \* characters of a triple-quoted payload
MaxText == 3      \* characters of a quoted string
MaxIdent == 3     \* characters of a bareword
MaxNumber == 3    \* characters of a numeric literal

RECURSIVE TextsOfLen(_, _)
TextsOfLen(S, n) ==
    IF n = 0 THEN {<<>>}
    ELSE {Append(t, c) : t \in TextsOfLen(S, n - 1), c \in S}

\* The texts over S of lo to hi characters.
Texts(S, lo, hi) == UNION {TextsOfLen(S, n) : n \in lo..hi}

Doc(text, val) == [text |-> text, val |-> val]

Entry(key, val) == [k |-> Str(key), v |-> val]

\* A document as the whole text, and as a value inside each container form.
Contexts == 1..5
InContext(c, d) ==
    CASE c = 1 -> d
      [] c = 2 -> Doc(Str("[") \o d.text \o Str("]"), ArrVal(<<d.val>>))
      [] c = 3 -> Doc(Str("{k:") \o d.text \o Str("}"), ObjVal(<<Entry("k", d.val)>>))
      [] c = 4 -> Doc(Str("k: ") \o d.text, ObjVal(<<Entry("k", d.val)>>))
      [] c = 5 -> Doc(Str("k:\n  j: ") \o d.text,
                      ObjVal(<<Entry("k", ObjVal(<<Entry("j", d.val)>>))>>))

\* Sibling entries.
Elements ==
    { Doc(Str("1"), IntValue(1)),
      Doc(Str("'s'"), StrVal(Str("s"))),
      Doc(Str("[2]"), ArrVal(<<IntValue(2)>>)),
      Doc(Str("{c:3}"), ObjVal(<<Entry("c", IntValue(3))>>)) }

ArrayOf(e1, sep, e2) ==
    Doc(Str("[") \o e1.text \o sep \o e2.text \o Str("]"), ArrVal(<<e1.val, e2.val>>))

ObjectOf(e1, sep, e2) ==
    Doc(Str("{a:") \o e1.text \o sep \o Str("b:") \o e2.text \o Str("}"),
        ObjVal(<<Entry("a", e1.val), Entry("b", e2.val)>>))

\* Two siblings of a braced object or an array with sep between them, at
\* the top level and nested.
Siblings(seps) ==
    {InContext(c, ArrayOf(e1, sep, e2)) :
        c \in Contexts, e1 \in Elements, e2 \in Elements, sep \in seps}
    \cup {InContext(c, ObjectOf(e1, sep, e2)) :
        c \in Contexts, e1 \in Elements, e2 \in Elements, sep \in seps}

SpaceSeps == Texts(Blanks, 1, MaxGap)
CommaSeps == {a \o <<",">> \o b : a \in Texts(Blanks, 0, 1), b \in Texts(Blanks, 0, 1)}
NewlineSeps == {a \o <<"\n">> \o b : a \in Texts({" "}, 0, 1), b \in Texts({" ", "\n"}, 0, 1)}

SpaceSiblings == Siblings(SpaceSeps)
CommaSiblings == Siblings(CommaSeps)
NewlineSiblings == Siblings(NewlineSeps)

\* Two entries of an implicit object on one line, blanks between them: at
\* the top level and in an indented block.
ImplicitSiblings ==
    {Doc(pre \o Str("a: ") \o e1.text \o sep \o Str("b: ") \o e2.text,
         IF pre = <<>> THEN ObjVal(<<Entry("a", e1.val), Entry("b", e2.val)>>)
         ELSE ObjVal(<<Entry("k", ObjVal(<<Entry("a", e1.val), Entry("b", e2.val)>>))>>)) :
        pre \in {<<>>, Str("k:\n  ")}, e1 \in Elements, e2 \in Elements, sep \in SpaceSeps}

\* A complete explicit top-level container, then content.
TopContainers ==
    {Str("[]"), Str("{}"), Str("[1]"), Str("{a:1}"), Str("[1, 2]"), Str("[\n1,\n2\n]"),
     Str("{a: [1]}")}
Gaps ==
    {<<>>, Str(" "), Str("\n"), Str("\n\n"), Str("\n  "), Str(" # c\n"), Str(" ###c### "),
     Str("\r\n")}
Junk ==
    {Str("2"), Str("x"), Str("junk"), Str("x: 2"), Str(","), Str("]"), Str("}"), Str("["),
     Str("{"), Str(":"), Str("'s'"), Str("yes"), Str("null"), Str("-"), Str("[3]"), Str("{}"),
     Str(", 3"), Str("x\n")}
SealedJunk == {c \o g \o j : c \in TopContainers, g \in Gaps, j \in Junk}
\* The same containers with nothing, blanks, newlines or comments after.
SealedClean ==
    {c \o g : c \in TopContainers,
              g \in Gaps \cup {Str("\n# c"), Str("\n###\nc\n### d\n"), Str(" \n \n")}}
\* A complete implicit top-level object, then a token that starts no entry.
ImplicitJunk ==
    {Str("a: 1") \o g \o j :
        g \in Gaps \ {<<>>},
        j \in Junk \ {Str("x: 2"), Str("x"), Str("junk"), Str("'s'"), Str("x\n")}}

\* Indented documents: line i is at depth depths[i], the first at depth 0
\* and each at most one deeper than the line before.  A line followed by a
\* deeper one is "key:" and opens a block; any other is "key: value".  The
\* key of line i is the i-th letter, so no key repeats; its value is the
\* number i on odd lines and the array [i] on even ones.  After each line
\* comes the filler: nothing, a blank line or a comment line.
RECURSIVE DepthLists(_)
DepthLists(n) ==
    IF n = 1 THEN {<<0>>}
    ELSE {dl \in {Append(ds, d) : ds \in DepthLists(n - 1), d \in 0..n} :
             dl[n] <= dl[n - 1] + 1}

Opens(depths, i) == i < Len(depths) /\ depths[i + 1] = depths[i] + 1

KeyOf(i) == <<Lowers[i]>>

Leaf(i) ==
    IF i % 2 = 1 THEN Doc(<<Str("123456789")[i]>>, IntValue(i))
    ELSE Doc(Str("[") \o <<Str("123456789")[i]>> \o Str("]"), ArrVal(<<IntValue(i)>>))

RECURSIVE RenderLines(_, _, _, _)
RenderLines(depths, unit, filler, i) ==
    IF i > Len(depths) THEN <<>>
    ELSE Flatten([k \in 1..depths[i] |-> unit]) \o KeyOf(i)
         \o (IF Opens(depths, i) THEN Str(":") ELSE Str(": ") \o Leaf(i).text)
         \o Str("\n") \o filler \o RenderLines(depths, unit, filler, i + 1)

\* The entries of the block of depth d that starts at line i, and the
\* line after the block: the block runs to the first line less deep.
RECURSIVE BlockOf(_, _, _, _)
BlockOf(depths, i, d, entries) ==
    IF i > Len(depths) \/ depths[i] < d THEN [entries |-> entries, next |-> i]
    ELSE IF Opens(depths, i)
    THEN LET sub == BlockOf(depths, i + 1, d + 1, <<>>)
         IN  BlockOf(depths, sub.next, d,
                     Append(entries, [k |-> KeyOf(i), v |-> ObjVal(sub.entries)]))
    ELSE BlockOf(depths, i + 1, d, Append(entries, [k |-> KeyOf(i), v |-> Leaf(i).val]))

IndentUnits == {Str("  "), Str("\t"), Str(" ")}
Fillers == {<<>>, Str("\n"), Str("   # c\n")}

IndentedDocs ==
    {[text |-> RenderLines(depths, unit, filler, 1),
      val |-> ObjVal(BlockOf(depths, 1, 0, <<>>).entries),
      depths |-> depths] :
        depths \in UNION {DepthLists(n) : n \in 1..MaxLines},
        unit \in IndentUnits, filler \in Fillers}

\* Triple-quoted payloads, as the value of a key.
PayloadChars == {"a", " ", "\t", "\n"}
Payloads ==
    Texts(PayloadChars, 0, MaxPayload)
    \cup {Str("\n  Line 1\n  Line 2\n  "), Str("Line 1\n  Line 2\n  ")}
PayloadDoc(quote, payload) == Str("x: ") \o quote \o payload \o quote
PayloadTexts ==
    {PayloadDoc(quote, payload) : quote \in {Str("'''"), Str("\"\"\"")}, payload \in Payloads}
\* The payload of a document of PayloadTexts.
PayloadOf(text) == SubSeq(text, 7, Len(text) - 3)

\* Quoted strings with "#", "{" in them.
StringContents == Texts({"#", "{", "a"}, 0, MaxText) \cup {Str("val #{x}")}
Quotes == {Str("'"), Str("\""), Str("'''"), Str("\"\"\"")}
StringDocs ==
    {[text |-> InContext(c, Doc(quote \o content \o quote, StrVal(content))).text,
      val |-> InContext(c, Doc(quote \o content \o quote, StrVal(content))).val,
      quote |-> quote[1], content |-> content] :
        c \in {2, 4}, quote \in Quotes, content \in StringContents}

\* Barewords in value position.
Words ==
    Texts({"n", "o", "f", "N", "O"}, 1, MaxIdent)
    \cup {Str("true"), Str("false"), Str("null"), Str("yes"), Str("True"), Str("TRUE"),
          Str("False"), Str("FALSE"), Str("Null"), Str("NULL"), Str("Yes"), Str("YES"),
          Str("nul"), Str("nulll"), Str("tru"), Str("truee"), Str("yess"), Str("offf")}
WordDocs ==
    {[text |-> InContext(c, Doc(w, None)).text, word |-> w, context |-> c] :
        c \in 2..5, w \in Words}

\* Numeric literals and their malformed neighbours.
NumberTexts ==
    {Str("x: ") \o n : n \in Texts({"-", ".", "0", "1", "e", "x"}, 1, MaxNumber)}

\* The inputs of tests/test_csonh.py, and a text with a byte-order mark.
TestInputs ==
    {Str("{}"), <<>>, Str("# Comment"), Str("key: 'value'"),
     Str("\nserver:\n  host: 'localhost'\n  port: 8080\n"),
     Str("[1, 2, 3]"), Str("[\n  1,\n  2,\n  3\n]"), Str("[1 2]"), Str("{a:1 b:2}"),
     Str("key: 1\ngarbage"), Str("[1, 2] junk"),
     Str("msg: '''\n  Line 1\n  Line 2\n  '''"), Str("msg: '''Line 1\n  Line 2\n  '''"),
     Str("char: '\\u0041'"), Str("i: 42"), Str("f: 3.14"), Str("h: 0xFF"), Str("b: 0b10"),
     Str("a: yes"), Str("b: NO"), Str("a: \"val #{x}\""), Str("a: 'val #{x}'"),
     Str("a: 1 + 2"), <<BOM>> \o Str("a: 1\r\nb: 0o17\r"), Str("a: 1 b: 2"), Str("a: -.")}

TextsOf(docs) == {d.text : d \in docs}

Inputs ==
    TextsOf(SpaceSiblings) \cup TextsOf(CommaSiblings) \cup TextsOf(NewlineSiblings)
    \cup TextsOf(ImplicitSiblings)
    \cup SealedJunk \cup SealedClean \cup ImplicitJunk
    \cup TextsOf(IndentedDocs)
    \cup PayloadTexts
    \cup TextsOf(StringDocs)
    \cup TextsOf(WordDocs)
    \cup NumberTexts
    \cup TestInputs

Init ==
    /\ source \in {LexerSource(text) : text \in Inputs}
    /\ pos = 0
    /\ indent_stack = <<0>>
    /\ indent_unit = NoUnit
    /\ indent_char = None
    /\ at_line_start = TRUE
    /\ tokens = <<>>
    /\ pc = "lex"
    /\ ppos = 0
    /\ result = NoResult

Spec == Init /\ [][Next]_vars
(***************************************************************************)
(* Properties.                                                             *)
(***************************************************************************)
Done == pc = "done"

Returned(v) == result.kind = "ok" /\ result.value = v

SpaceSiblingTexts == TextsOf(SpaceSiblings)
SeparatedSiblings == CommaSiblings \cup NewlineSiblings
SameLineSiblings == SpaceSiblings \cup ImplicitSiblings
JunkSources == {LexerSource(t) : t \in SealedJunk \cup ImplicitJunk}

\* C1: two sibling entries of a braced object or of an array with only
\* blanks between them make loads() raise a ParseError, the one of the
\* strict separation check.
StrictSeparation ==
    Done /\ source \in SpaceSiblingTexts =>
        /\ result.kind = "ParseError"
        /\ result.msg \in {"Expected comma or newline between object entries",
                           "Expected comma or newline between array elements"}

StrictSeparationWitness ==
    Done /\ source = Str("{a:1 b:1}") /\ source \in SpaceSiblingTexts
         /\ result.kind = "ParseError"

\* C2: two siblings of a braced object or of an array separated by a comma,
\* or by a newline alone, are accepted: loads() returns the container with
\* both entries in source order.
SeparatorsAccepted ==
    \A d \in SeparatedSiblings : Done /\ source = d.text => Returned(d.val)

\* C3: loads() returns only with the parser on EOF, and a text with content
\* after its complete top-level value makes it fail.
TopLevelSeal ==
    Done => /\ result.kind = "ok" => current(ppos).type = "EOF"
            /\ source \in JunkSources => result.kind \in {"ParseError", "LexerError"}

TopLevelSealWitness ==
    Done /\ source = Str("[1, 2] junk") /\ source \in JunkSources
         /\ result.kind = "ParseError"
         /\ result.msg = "Trailing junk after top-level array"

\* C4: in no container form, the implicit ones included, are two entries
\* on one line with only blanks between them accepted as two entries.
SpaceNeverSeparates ==
    \A d \in SameLineSiblings : Done /\ source = d.text => ~Returned(d.val)

\* C5: loads() returns a map or a sequence or raises a LexerError or a
\* ParseError, nothing else.
OnlyTwoErrorKinds ==
    Done => /\ result.kind \in {"ok", "LexerError", "ParseError"}
            /\ result.kind = "ok" => result.value.t \in {"obj", "arr"}

\* C6: the lines of an indented block become the map of the key that opened
\* it, and a line that dedents, by one level or several, goes to the object
\* at its own depth; every block takes one DEDENT.
CountTokens(token_type) == Cardinality({i \in 1..Len(tokens) : tokens[i].type = token_type})

BlocksOf(depths) == Cardinality({i \in 1..Len(depths) : Opens(depths, i)})

ImplicitNesting ==
    \A d \in IndentedDocs :
        Done /\ source = d.text =>
            /\ Returned(d.val)
            /\ CountTokens("DEDENT") = BlocksOf(d.depths)
            /\ current(ppos).type = "EOF"

\* a:
\*   b:
\*     c: 3
\* d: [4]
ImplicitNestingWitness ==
    /\ Done /\ source = Str("a:\n  b:\n    c: 3\nd: [4]\n")
    /\ \E d \in IndentedDocs : source = d.text /\ d.depths = <<0, 1, 2, 0>>
    /\ Returned(ObjVal(<<Entry("a", ObjVal(<<Entry("b", ObjVal(<<Entry("c", IntValue(3))>>))>>)),
                         Entry("d", ArrVal(<<IntValue(4)>>))>>))

\* The dedent of the notation, written from its rules.
BlankLine(line) == \A i \in 1..Len(line) : line[i] \in Blanks

\* The payload without its first line, when that line is blank and a newline
\* follows it.
WithoutBlankFirstLine(payload) ==
    LET lines == SplitLines(payload)
    IN  IF Len(lines) > 1 /\ BlankLine(lines[1]) THEN JoinLines(Tail(lines)) ELSE payload

LastLineBlank(payload) == BlankLine(SplitLines(payload)[Len(SplitLines(payload))])

\* A line without its first n characters when those are n spaces or n tabs.
Stripped(line, n) ==
    IF Len(line) >= n /\ (\/ \A i \in 1..n : line[i] = " "
                          \/ \A i \in 1..n : line[i] = "\t")
    THEN SubSeq(line, n + 1, Len(line))
    ELSE line

\* The final line dropped, the others stripped of its length.
ClosingDedent(payload) ==
    LET lines == SplitLines(payload)
        n == Len(lines[Len(lines)])
    IN  JoinLines([i \in 1..(Len(lines) - 1) |-> Stripped(lines[i], n)])

IsPayloadDoc == Done /\ source \in PayloadTexts

PayloadValue(text) == ObjVal(<<Entry("x", StrVal(text))>>)

\* C7 as stated: a payload whose last line is blank loses that line, and
\* every other line loses the closing indent when it starts with it.
DedentDropsClosingLine ==
    IsPayloadDoc /\ LastLineBlank(PayloadOf(source)) =>
        Returned(PayloadValue(ClosingDedent(WithoutBlankFirstLine(PayloadOf(source)))))

\* C7 as amended: the same, for a payload that still holds a newline once
\* its blank first line is dropped.
DedentWithNewline ==
    IsPayloadDoc /\ LastLineBlank(PayloadOf(source))
                 /\ HasNewline(WithoutBlankFirstLine(PayloadOf(source))) =>
        Returned(PayloadValue(ClosingDedent(WithoutBlankFirstLine(PayloadOf(source)))))

DedentWithNewlineWitness ==
    /\ Done /\ source = PayloadDoc(Str("'''"), Str("Line 1\n  Line 2\n  "))
    /\ IsPayloadDoc
    /\ Returned(PayloadValue(Str("Line 1\nLine 2")))

\* C8: a payload with a blank first line and a newline loses that line,
\* whether or not its last line is blank: the string is what the payload
\* without that line gives.
FirstLineDropped ==
    IsPayloadDoc /\ BlankLine(SplitLines(PayloadOf(source))[1])
                 /\ HasNewline(PayloadOf(source)) =>
        LET rest == WithoutBlankFirstLine(PayloadOf(source))
        IN  Returned(PayloadValue(IF LastLineBlank(rest) /\ HasNewline(rest)
                                  THEN ClosingDedent(rest) ELSE rest))

\* C9: "#{" in a double-quoted string is a LexerError; in a single-quoted
\* one it is text and the string is returned unchanged.
HasInterpolation(content) ==
    \E i \in 1..(Len(content) - 1) : content[i] = "#" /\ content[i + 1] = "{"

InterpolationGuard ==
    \A d \in StringDocs :
        Done /\ source = d.text /\ HasInterpolation(d.content) =>
            IF d.quote = "\""
            THEN /\ result.kind = "LexerError"
                 /\ result.msg = "Interpolation #{} not allowed in CSONH"
            ELSE Returned(d.val)

InterpolationGuardWitness ==
    /\ Done /\ source = Str("k: \"val #{x}\"")
    /\ \E d \in StringDocs : source = d.text /\ HasInterpolation(d.content)
    /\ result.kind = "LexerError"

\* C10: true, yes, on are the boolean true, false, no, off the boolean
\* false, null is null, in this spelling only; any other bareword in value
\* position is a ParseError.
WordMeaning(w) ==
    IF w \in {Str("true"), Str("yes"), Str("on")} THEN <<BoolVal(TRUE)>>
    ELSE IF w \in {Str("false"), Str("no"), Str("off")} THEN <<BoolVal(FALSE)>>
    ELSE IF w = Str("null") THEN <<NullVal>>
    ELSE <<>>

KeywordsCaseSensitive ==
    \A d \in WordDocs :
        Done /\ source = d.text =>
            IF WordMeaning(d.word) # <<>>
            THEN Returned(InContext(d.context, Doc(d.word, WordMeaning(d.word)[1])).val)
            ELSE /\ result.kind = "ParseError"
                 /\ result.msg = "Bareword rejected as value"

KeywordsCaseSensitiveWitness ==
    /\ Done /\ source = Str("k: NO")
    /\ \E d \in WordDocs : source = d.text
    /\ result.kind = "ParseError"
(***************************************************************************)
(* Indentation: the texts and the specification of the lexer's             *)
(* indentation bookkeeping.                                                *)
(***************************************************************************)
MaxWidth == 3
MaxIndentLines == 3

\* Leading whitespace of one kind: up to MaxWidth spaces or tabs.
IndentRuns == {Repeat(c, n) : c \in Blanks, n \in 0..MaxWidth}

\* n content lines, each "a" after a run of IndentRuns.
RECURSIVE LinesOf(_)
LinesOf(n) ==
    IF n = 0 THEN {<<>>}
    ELSE {run \o Str("a\n") \o rest : run \in IndentRuns, rest \in LinesOf(n - 1)}

IndentTexts == UNION {LinesOf(n) : n \in 1..MaxIndentLines}

\* Any whitespace, then the end of the line, a comment, or nothing: what
\* follows "nothing" is on the same line.
QuietTails == {Str("\n"), Str("# c\n"), Str("#"), <<>>}
QuietLines == {run \o tail : run \in Texts(Blanks, 0, MaxWidth), tail \in QuietTails}
QuietTexts ==
    {l1 \o q \o l2 : l1 \in LinesOf(0) \cup LinesOf(1), q \in QuietLines,
                     l2 \in LinesOf(0) \cup LinesOf(1)}

IndentInputs == IndentTexts \cup QuietTexts \cup TestInputs

InitIndent ==
    /\ source \in {LexerSource(text) : text \in IndentInputs}
    /\ pos = 0
    /\ indent_stack = <<0>>
    /\ indent_unit = NoUnit
    /\ indent_char = None
    /\ at_line_start = TRUE
    /\ tokens = <<>>
    /\ pc = "lex"
    /\ ppos = 0
    /\ result = NoResult

SpecIndent == InitIndent /\ [][Next]_vars

\* The line the lexer is about to measure: its leading whitespace, its
\* indent, and whether anything but a comment follows the whitespace.
AtLineStart == pc = "lex" /\ at_line_start /\ pos < Length
LeadingRun == Chars(pos, Span(pos, Blanks))
LineIndent == Len(LeadingRun)
AfterRun == Peek(Span(pos, Blanks), 0)
AtContentLine == AtLineStart /\ AfterRun \notin {None, "#", "\n"}

Mixes(run) ==
    /\ \E i \in 1..Len(run) : run[i] = " "
    /\ \E i \in 1..Len(run) : run[i] = "\t"

LeadingRunOf(line) ==
    SubSeq(line, 1, Min({i \in 0..Len(line) : i = Len(line) \/ line[i + 1] \notin Blanks}))

HasMixedLine(text) ==
    \E i \in 1..Len(SplitLines(text)) : Mixes(LeadingRunOf(SplitLines(text)[i]))

TokenizeEnded == pc \in {"parse", "done"}
TokenizeSucceeded == pc = "parse" \/ (pc = "done" /\ result.kind \in {"ok", "ParseError"})

\* C11 as stated: a text with a line whose leading whitespace mixes spaces
\* and tabs does not tokenize: tokenize() ends in a LexerError.
MixedLineAlwaysFails ==
    TokenizeEnded /\ HasMixedLine(source) => result.kind = "LexerError"

\* C11 as amended: when the lexer measures a line whose leading whitespace
\* mixes spaces and tabs and is followed by content (not the end of the
\* line, a comment or the end of the text), it raises the LexerError
\* "Mixed tabs and spaces", whatever the lines before left in its fields.
MixedContentLineFails ==
    [][AtContentLine /\ Mixes(LeadingRun) =>
          /\ pc' = "done"
          /\ result'.kind = "LexerError"
          /\ result'.msg = "Mixed tabs and spaces"
          /\ tokens' = tokens]_vars

MixedContentLineFailsWitness ==
    /\ pc = "done" /\ source = Str(" a\n \ta\n")
    /\ HasMixedLine(source)
    /\ result.kind = "LexerError" /\ result.msg = "Mixed tabs and spaces"
    /\ result.line = 2

\* C12: in every state of tokenize() the indent stack is not empty, starts
\* with 0 and is strictly increasing.
IndentStackIncreasing ==
    /\ indent_stack # <<>>
    /\ indent_stack[1] = 0
    /\ \A i \in 1..(Len(indent_stack) - 1) : indent_stack[i] < indent_stack[i + 1]

IndentStackIncreasingWitness ==
    /\ pc = "lex" /\ source = Str("\ta\n\t\ta\n\ta\n")
    /\ indent_stack = <<0, 1, 2>> /\ indent_char = "tab"

NewTokens == SubSeq(tokens', Len(tokens) + 1, Len(tokens'))

AllOfType(toks, token_type) == \A i \in 1..Len(toks) : toks[i].type = token_type

\* C13: on a content line indented d beyond the top of the stack, the first
\* increase sets indent_unit to d and no later step changes it; a later d
\* that is not a multiple of indent_unit is a LexerError; otherwise, when
\* the line is accepted, d / indent_unit levels are pushed, as many INDENT
\* tokens are emitted and the top of the stack is the indent of the line.
IndentIncrease ==
    [][/\ indent_unit # NoUnit => indent_unit' = indent_unit
       /\ AtContentLine /\ LineIndent > Top(indent_stack) =>
            LET d == LineIndent - Top(indent_stack)
            IN  /\ indent_unit # NoUnit /\ d % indent_unit # 0 => pc' = "done"
                /\ pc' = "done" => result'.kind = "LexerError" /\ tokens' = tokens
                /\ pc' # "done" =>
                     /\ indent_unit' = IF indent_unit = NoUnit THEN d ELSE indent_unit
                     /\ d % indent_unit' = 0
                     /\ Len(indent_stack') = Len(indent_stack) + d \div indent_unit'
                     /\ SubSeq(indent_stack', 1, Len(indent_stack)) = indent_stack
                     /\ Top(indent_stack') = LineIndent
                     /\ Len(NewTokens) = d \div indent_unit'
                     /\ AllOfType(NewTokens, "INDENT")]_vars

IndentIncreaseWitness ==
    /\ pc = "lex" /\ source = Str(" a\n   a\n")
    /\ indent_stack = <<0, 1, 2, 3>> /\ indent_unit = 1
    /\ Len(tokens) = 5 /\ AllOfType(SubSeq(tokens, 4, 5), "INDENT")

OnStack(indent) == \E i \in 1..Len(indent_stack) : indent_stack[i] = indent

\* What a dedent to an indent of the stack does: the levels above it are
\* popped, one DEDENT each.
PoppedTo(indent) ==
    /\ pc' = "lex"
    /\ Top(indent_stack') = indent
    /\ indent_stack' = SubSeq(indent_stack, 1, Len(indent_stack'))
    /\ Len(NewTokens) = Len(indent_stack) - Len(indent_stack')
    /\ AllOfType(NewTokens, "DEDENT")

DedentRefused ==
    /\ pc' = "done"
    /\ result'.kind = "LexerError"
    /\ tokens' = tokens
    /\ indent_stack' = indent_stack

\* C14 as stated: on a content line indented less than the top of the
\* stack, an indent that is not on the stack is a LexerError and nothing is
\* emitted; an indent on the stack pops the levels above it, one DEDENT
\* each.
DedentAlwaysPops ==
    [][AtContentLine /\ LineIndent < Top(indent_stack) =>
          IF OnStack(LineIndent) THEN PoppedTo(LineIndent) ELSE DedentRefused]_vars

\* The leading whitespace passes the checks made before the indent is
\* compared: it is of one kind, the kind of the indentation seen so far.
RunAccepted ==
    LeadingRun # <<>> =>
        /\ ~Mixes(LeadingRun)
        /\ indent_char # None => indent_char = CharType(LeadingRun[1])

\* C14 as amended: the same for a line whose leading whitespace is of one
\* kind, the kind of the indentation before it; an indent not on the stack
\* is then the LexerError "Dedent mismatch".
DedentPops ==
    [][AtContentLine /\ LineIndent < Top(indent_stack) =>
          /\ RunAccepted =>
               IF OnStack(LineIndent) THEN PoppedTo(LineIndent)
               ELSE DedentRefused /\ result'.msg = "Dedent mismatch"
          /\ ~RunAccepted => DedentRefused]_vars

DedentPopsWitness ==
    /\ pc = "lex" /\ source = Str(" a\n   a\n a\n")
    /\ indent_stack = <<0, 1>>
    /\ Len(tokens) = 9 /\ AllOfType(SubSeq(tokens, 8, 9), "DEDENT")

CountIn(toks, token_type) == Cardinality({i \in 1..Len(toks) : toks[i].type = token_type})

\* C15: while tokenize() runs, the open levels are the INDENTs not yet
\* matched by a DEDENT; when it succeeds the tokens hold one EOF, the last
\* token, as many DEDENTs as INDENTs, no prefix with more DEDENTs than
\* INDENTs, and the stack is back to [0].
TokensBalanced ==
    /\ pc = "lex" => CountTokens("INDENT") - CountTokens("DEDENT") = Len(indent_stack) - 1
    /\ TokenizeSucceeded =>
         /\ CountTokens("EOF") = 1
         /\ tokens[Len(tokens)].type = "EOF"
         /\ CountTokens("DEDENT") = CountTokens("INDENT")
         /\ \A n \in 1..Len(tokens) :
               CountIn(SubSeq(tokens, 1, n), "DEDENT") <= CountIn(SubSeq(tokens, 1, n), "INDENT")
         /\ indent_stack = <<0>>

TokensBalancedWitness ==
    /\ pc = "parse" /\ source = Str("a\n a\n   a\n")
    /\ CountTokens("INDENT") = 3
    /\ AllOfType(SubSeq(tokens, Len(tokens) - 3, Len(tokens) - 1), "DEDENT")
    /\ indent_stack = <<0>>
====
